---- MODULE Spec2Model ----
(***************************************************************************)
(* Model of lambda_function.py: a Lambda handler that validates a request, *)
(* checks a per-account rate limit kept in two DynamoDB tables (Users,     *)
(* RL_AWS) and then updates, through a secondary index, the matching items *)
(* of a target table, or creates one item when nothing matches.            *)
(*                                                                         *)
(* Every store call of the code is one step of the model, so concurrent    *)
(* invocations interleave at store-call boundaries.  A store call may fail *)
(* (ClientError); the choice is nondeterministic.                          *)
(***************************************************************************)
EXTENDS Integers, Sequences, FiniteSets, TLC

(***************************************************************************)
(* Bounds of the model.                                                    *)
(***************************************************************************)
MaxQuota == 2        \* rl_aws values of the account range over 0..MaxQuota
MaxCalls == 3        \* invocations of lambda_handler started in one behaviour
MaxTicks == 1        \* number of clock advances
MaxPk == 2           \* primary keys of the target table range over 1..MaxPk

TickMs == 60000      \* one clock advance, in milliseconds

(***************************************************************************)
(* Program constants.                                                      *)
(***************************************************************************)
WindowMs == 60000    \* ttl_time = current_time + (60 * 1000)

Procs == {"p1", "p2"}        \* concurrent invocations of lambda_handler
PKs == 1..MaxPk
key_schema == <<"pk">>       \* describe_table(...)['Table']['KeySchema']

EmptyMap == [a \in {} |-> 0] \* the empty dict; also "no item" in a table

Max(a, b) == IF a >= b THEN a ELSE b

VARIABLES
    users,                \* Users item of the account: [item, has_rl, rl_aws]
    rl,                   \* RL_AWS item of the account: [present, invocations, ttl]
    now,                  \* the clock, in milliseconds
    table,                \* target table: primary key -> item, EmptyMap = absent
    keyless,              \* primary keys of the items the index returns without key
    pc,                   \* position of each invocation
    req,                  \* the event of each invocation
    max_invocations,      \* check_rate_limit local
    current_invocations,  \* check_rate_limit local, kept as what the check read
    ttl_time,             \* check_rate_limit local
    is_allowed,           \* check_rate_limit result
    error_message,        \* check_rate_limit result
    items,                \* db_update local: the query's Items
    idx,                  \* db_update local: loop index
    updated_count,        \* db_update local
    errors,               \* db_update local: per-item errors
    result,               \* db_update return value
    statusCode,           \* lambda_handler response status, 0 = none yet
    rlFailed,             \* history: which store access of the check failed
    rlWrites,             \* history: writes to RL_AWS issued by this check
    rlCalls,              \* history: store calls issued by check_rate_limit
    dbCalls,              \* history: store calls issued by db_update
    attempts,             \* history: the items the sweep has processed, and how
    dbFailed,             \* history: which store call of db_update failed as a whole
    admitted,             \* history: checks of this window that returned Allowed
    rejected,             \* history: checks of this window denied for the quota
    failure,              \* history: a check of this window met a store failure
    overlap,              \* history: a check started while another was running
    lastUpdate,           \* history: the request of the last db_update to end, when
                          \*   it updated a record and met no store failure
    ncalls                \* history: invocations started

storeVars == <<users, rl, now, table, keyless>>
rlLocals == <<max_invocations, current_invocations, ttl_time, is_allowed, error_message>>
dbLocals == <<items, idx, updated_count, errors, result>>
winHist == <<admitted, rejected, failure>>
rlHist == <<rlFailed, rlWrites, rlCalls, winHist, overlap>>
dbHist == <<dbCalls, attempts, dbFailed, lastUpdate>>
vars == <<users, rl, now, table, keyless, pc, req, max_invocations, current_invocations,
          ttl_time, is_allowed, error_message, items, idx, updated_count, errors,
          result, statusCode, rlFailed, rlWrites, rlCalls, dbCalls, attempts,
          dbFailed, admitted, rejected, failure, overlap, lastUpdate, ncalls>>

(***************************************************************************)
(* Messages and status codes of the code.                                  *)
(***************************************************************************)
MsgNone == "None"
MsgRateExceeded == "Rate limit exceeded. Maximum N invocations per minute allowed."
MsgInternal == "Internal error checking rate limits"

StatusOk == 200
StatusBadRequest == 400
StatusRateLimited == 429
StatusInternal == 500

(***************************************************************************)
(* check_rate_limit: pure parts.                                           *)
(***************************************************************************)
NoUser == [item |-> FALSE, has_rl |-> FALSE, rl_aws |-> 0]
NoCounter == [present |-> FALSE, invocations |-> 0, ttl |-> 0]

\* max_invocations: 0 without a Users item, else Item.get('rl_aws', 0)
QuotaOf(u) == IF ~u.item THEN 0 ELSE IF u.has_rl THEN u.rl_aws ELSE 0

\* (variant: the comparison is strict)
QuotaReachedStrict(cur, max) == cur > max

\* if current_invocations >= max_invocations: return False, ...
QuotaReached(cur, max) == cur >= max

\* (variant: the call that creates the record is not counted)
NewCounterUncounted(t) == [present |-> TRUE, invocations |-> 0, ttl |-> t]

\* put_item(Item={associated_account, invocations: 1, ttl: ttl_time})
NewCounter(t) == [present |-> TRUE, invocations |-> 1, ttl |-> t]

\* (variant: the increment also moves the expiry, a sliding window)
IncrementedSliding(r) == [r EXCEPT !.invocations = @ + 1, !.ttl = now + WindowMs]

\* update_item(... 'SET invocations = invocations + :inc' ...)
Incremented(r) == [r EXCEPT !.invocations = @ + 1]

\* (variant: the counter is incremented before the quota is compared)
CounterOnDenyCounted(r) == [rec |-> Incremented(r), writes |-> 1]

\* the record the store holds after the denied branch returned: no write
CounterOnDeny(r) == [rec |-> r, writes |-> 0]

\* ttl_time = current_time + (60 * 1000)
TtlTime(t) == t + WindowMs

CheckAllowed == [is_allowed |-> TRUE, error_message |-> MsgNone]
CheckDenied == [is_allowed |-> FALSE, error_message |-> MsgRateExceeded]
\* (variant: a store failure lets the request through)
CheckFailedOpen == [is_allowed |-> TRUE, error_message |-> MsgNone]

\* both except branches: return False, "Internal error checking rate limits"
CheckFailed == [is_allowed |-> FALSE, error_message |-> MsgInternal]

(***************************************************************************)
(* lambda_handler: pure parts.                                             *)
(***************************************************************************)
ReqKinds == {"no_body", "bad_json", "scalar_body", "missing_field", "not_dict",
             "no_account", "valid"}

NoReq == [kind |-> "none", key_name |-> "pk", key_value |-> 1, update_data |-> EmptyMap]

InvalidReqs == {[NoReq EXCEPT !.kind = k] : k \in ReqKinds \ {"valid"}}

ValidReqs(kns, kvs, uds) ==
    {[kind |-> "valid", key_name |-> kn, key_value |-> kv, update_data |-> ud] :
        kn \in kns, kv \in kvs, ud \in uds}

\* The status the validation part of lambda_handler returns, 0 when it passes.
\* A body that parses to a JSON number, boolean or null makes `field not in body`
\* raise TypeError, which the outer except turns into 500.
ValidationStatus(kind) ==
    CASE kind = "no_body" -> StatusBadRequest
      [] kind = "bad_json" -> StatusBadRequest
      [] kind = "scalar_body" -> StatusInternal
      [] kind = "missing_field" -> StatusBadRequest
      [] kind = "not_dict" -> StatusBadRequest
      [] kind = "no_account" -> StatusBadRequest
      [] OTHER -> 0

\* (variant: the result of the check is ignored)
ProceedAlways(allowed) == TRUE

\* if not is_allowed: return 429; otherwise db_update runs
ProceedToUpdate(allowed) == allowed

\* (variant: a failed db_update is raised on as a fault; the gateway answers 502)
StatusOfFault(res) == IF res.error THEN 502 ELSE StatusOk

\* (variant: a sweep with per-item errors is answered as a failure)
StatusOfPartialAsError(res) ==
    IF res.error \/ res.errors # <<>> THEN StatusInternal ELSE StatusOk

\* if result.get('error'): 500 else 200
StatusOf(res) == IF res.error THEN StatusInternal ELSE StatusOk

(***************************************************************************)
(* db_update: pure parts.                                                  *)
(***************************************************************************)
NoResult == [operation |-> "none", updated_count |-> 0, total_items |-> 0,
             errors |-> <<>>, error |-> FALSE, missing |-> "none",
             primary_key |-> EmptyMap]

KeyAttrs == {key_schema[i] : i \in 1..Len(key_schema)}

\* table.query(IndexName, '#key_name = :value'): the matching items, by primary key
Matches(r, kn, kv) == kn \in DOMAIN r /\ r[kn] = kv

\* an item as the index returns it when it does not hold the key attributes
WithoutKey(r) == [a \in DOMAIN r \ KeyAttrs |-> r[a]]

RECURSIVE QueryFrom(_, _, _, _, _)
QueryFrom(tbl, k, kn, kv, nokey) ==
    IF k > MaxPk THEN <<>>
    ELSE (IF Matches(tbl[k], kn, kv)
          THEN <<IF k \in nokey THEN WithoutKey(tbl[k]) ELSE tbl[k]>>
          ELSE <<>>)
         \o QueryFrom(tbl, k + 1, kn, kv, nokey)

Query(tbl, kn, kv, nokey) == QueryFrom(tbl, 1, kn, kv, nokey)

\* (variant: {**update_data, key_name: key_value}, the key value wins)
NewItemKeyLast(kn, kv, ud) ==
    [a \in {kn} \cup DOMAIN ud |-> IF a = kn THEN kv ELSE ud[a]]

\* new_item = {key_name: key_value, **update_data}
NewItem(kn, kv, ud) ==
    [a \in {kn} \cup DOMAIN ud |-> IF a \in DOMAIN ud THEN ud[a] ELSE kv]

\* (variant: the insert keeps the attributes of the stored item it does not name)
PutRecordMerge(old, new) ==
    [a \in DOMAIN old \cup DOMAIN new |-> IF a \in DOMAIN new THEN new[a] ELSE old[a]]

\* table.put_item(Item=new_item), no ConditionExpression: the item stored under
\* the key, if any, is replaced as a whole
PutRecord(old, new) == new

\* the loop over key_schema: the first key attribute that is not in the item
MissingKey(r) == \E i \in 1..Len(key_schema) : key_schema[i] \notin DOMAIN r

\* the key attribute the loop over key_schema raises KeyError for
FirstMissing(r) ==
    key_schema[CHOOSE i \in 1..Len(key_schema) :
                  /\ key_schema[i] \notin DOMAIN r
                  /\ \A j \in 1..(i - 1) : key_schema[j] \in DOMAIN r]

\* primary_key[key_attr_name] = item[key_attr_name]
PrimaryKey(r) == [a \in KeyAttrs |-> r[a]]

\* (variant: the expression is "ADD #attr0 :val0, ...", the values are added)
ApplyUpdateAdd(r, ud) ==
    [a \in DOMAIN r \cup DOMAIN ud |->
        IF a \notin DOMAIN ud THEN r[a]
        ELSE IF a \in DOMAIN r THEN r[a] + ud[a] ELSE ud[a]]

\* (variant: the store replaces the item by its key and the new values)
ApplyUpdateReplace(r, ud) ==
    [a \in (DOMAIN r \cap KeyAttrs) \cup DOMAIN ud |->
        IF a \in DOMAIN ud THEN ud[a] ELSE r[a]]

\* update_expr "SET #attr0 = :val0, ..." applied by the store to one item
ApplyUpdate(r, ud) ==
    [a \in DOMAIN r \cup DOMAIN ud |-> IF a \in DOMAIN ud THEN ud[a] ELSE r[a]]

\* The store rejects the expression built from an empty update_data ("SE" after
\* update_expr[:-2]) and a SET of a key attribute.
UpdateRejected(ud) == ud = EmptyMap \/ DOMAIN ud \cap KeyAttrs # {}

\* (variant: the loop stops at the first failed item)
NextIdxBreak(i, n, failed) == IF failed THEN n + 1 ELSE i + 1

\* for idx, item in enumerate(items, 1): the loop goes on after a failed item
NextIdx(i, n, failed) == i + 1

CreateResult(pk) ==
    [operation |-> "create", updated_count |-> 1, total_items |-> 1,
     errors |-> <<>>, error |-> FALSE, missing |-> "none", primary_key |-> pk]

CreateFailed ==
    [operation |-> "create_failed", updated_count |-> 0, total_items |-> 0,
     errors |-> <<>>, error |-> TRUE, missing |-> "none", primary_key |-> EmptyMap]

\* (variant: the failure is answered with a text that names no attribute)
CreateFailedUnnamed(a) == CreateFailed

\* 'error': "Failed to create new item: 'Missing required primary key attribute: a'"
CreateFailedMissing(a) == [CreateFailed EXCEPT !.missing = a]

UpdateResult(cnt, n, errs) ==
    [operation |-> "update", updated_count |-> cnt, total_items |-> n,
     errors |-> errs, error |-> FALSE, missing |-> "none", primary_key |-> EmptyMap]

ErrorResult ==
    [operation |-> "error", updated_count |-> 0, total_items |-> 0,
     errors |-> <<>>, error |-> TRUE, missing |-> "none", primary_key |-> EmptyMap]

\* the result of a sweep that updated a record and in which no store call failed
CleanUpdate(res) ==
    /\ res.operation = "update"
    /\ res.updated_count >= 1
    /\ \A i \in 1..Len(res.errors) : res.errors[i].reason = "missing_key"

(***************************************************************************)
(* Initial state: the account's Users item is any of the possible ones,    *)
(* RL_AWS holds no record, the target table is empty or holds one item per *)
(* primary key, all with the same indexed attribute.                       *)
(***************************************************************************)
UserItems ==
    {NoUser, [item |-> TRUE, has_rl |-> FALSE, rl_aws |-> 0]}
    \cup {[item |-> TRUE, has_rl |-> TRUE, rl_aws |-> q] : q \in 0..MaxQuota}

EmptyTable == [k \in PKs |-> EmptyMap]
FullTable == [k \in PKs |-> [pk |-> k, g |-> 1, s |-> 1]]

Set(f, p, v) == [f EXCEPT ![p] = v]

InitLocals ==
    /\ pc = [p \in Procs |-> "idle"]
    /\ req = [p \in Procs |-> NoReq]
    /\ max_invocations = [p \in Procs |-> 0]
    /\ current_invocations = [p \in Procs |-> -1]
    /\ ttl_time = [p \in Procs |-> 0]
    /\ is_allowed = [p \in Procs |-> FALSE]
    /\ error_message = [p \in Procs |-> MsgNone]
    /\ items = [p \in Procs |-> <<>>]
    /\ idx = [p \in Procs |-> 0]
    /\ updated_count = [p \in Procs |-> 0]
    /\ errors = [p \in Procs |-> <<>>]
    /\ result = [p \in Procs |-> NoResult]
    /\ statusCode = [p \in Procs |-> 0]
    /\ rlFailed = [p \in Procs |-> "none"]
    /\ rlWrites = [p \in Procs |-> 0]
    /\ rlCalls = [p \in Procs |-> 0]
    /\ dbCalls = [p \in Procs |-> 0]
    /\ attempts = [p \in Procs |-> <<>>]
    /\ dbFailed = [p \in Procs |-> "none"]
    /\ admitted = 0
    /\ rejected = 0
    /\ failure = FALSE
    /\ overlap = FALSE
    /\ lastUpdate = NoReq
    /\ ncalls = 0

Init ==
    /\ users \in UserItems
    /\ rl = NoCounter
    /\ now = 0
    /\ table = FullTable
    /\ keyless = {}
    /\ InitLocals

InitDB ==
    /\ users = [item |-> TRUE, has_rl |-> TRUE, rl_aws |-> MaxQuota]
    /\ rl = NoCounter
    /\ now = 0
    /\ table \in {EmptyTable, FullTable}
    /\ keyless \in {{}, {1}}
    /\ InitLocals

\* the account has the largest quota, the target table is full
InitFair ==
    /\ users = [item |-> TRUE, has_rl |-> TRUE, rl_aws |-> MaxQuota]
    /\ rl = NoCounter
    /\ now = 0
    /\ table = FullTable
    /\ keyless = {}
    /\ InitLocals

(***************************************************************************)
(* lambda_handler, up to the call of check_rate_limit.                     *)
(***************************************************************************)
RLpcs == {"rl_user", "rl_get", "rl_inc", "rl_put"}

Start(p, reqs) ==
    /\ pc[p] = "idle"
    /\ ncalls < MaxCalls
    /\ ncalls' = ncalls + 1
    /\ \E r \in reqs :
        /\ req' = Set(req, p, r)
        /\ IF ValidationStatus(r.kind) = 0
           THEN /\ pc' = Set(pc, p, "rl_user")
                /\ overlap' = (overlap \/ \E q \in Procs \ {p} : pc[q] \in RLpcs)
                /\ UNCHANGED statusCode
           ELSE /\ pc' = Set(pc, p, "done")
                /\ statusCode' = Set(statusCode, p, ValidationStatus(r.kind))
                /\ UNCHANGED overlap
    /\ UNCHANGED <<storeVars, rlLocals, dbLocals, dbHist, rlFailed, rlWrites,
                   rlCalls, winHist>>

\* check_rate_limit returns r; lambda_handler answers 429 or goes on to db_update
EndCheck(p, r, h) ==
    /\ is_allowed' = Set(is_allowed, p, r.is_allowed)
    /\ error_message' = Set(error_message, p, r.error_message)
    /\ max_invocations' = Set(max_invocations, p, 0)
    /\ ttl_time' = Set(ttl_time, p, 0)
    /\ admitted' = admitted + (IF h = "A" THEN 1 ELSE 0)
    /\ rejected' = rejected + (IF h = "D" THEN 1 ELSE 0)
    /\ failure' = (failure \/ h = "E")
    /\ IF ProceedToUpdate(r.is_allowed)
       THEN /\ pc' = Set(pc, p, "query")
            /\ UNCHANGED statusCode
       ELSE /\ pc' = Set(pc, p, "done")
            /\ statusCode' = Set(statusCode, p, StatusRateLimited)

(***************************************************************************)
(* check_rate_limit, one store call per step.                              *)
(***************************************************************************)
RlGetUser(p) ==
    /\ pc[p] = "rl_user"
    /\ rlCalls' = Set(rlCalls, p, rlCalls[p] + 1)
    /\ \E ok \in BOOLEAN :
        IF ok
        THEN /\ max_invocations' = Set(max_invocations, p, QuotaOf(users))
             /\ ttl_time' = Set(ttl_time, p, TtlTime(now))
             /\ pc' = Set(pc, p, "rl_get")
             /\ UNCHANGED <<is_allowed, error_message, winHist, statusCode, rlFailed>>
        ELSE /\ rlFailed' = Set(rlFailed, p, "quota")
             /\ EndCheck(p, CheckFailed, "E")
    /\ UNCHANGED <<storeVars, req, current_invocations, dbLocals, dbHist, rlWrites,
                   overlap, ncalls>>

RlGetCounter(p) ==
    /\ pc[p] = "rl_get"
    /\ rlCalls' = Set(rlCalls, p, rlCalls[p] + 1)
    /\ \E ok \in BOOLEAN :
        IF ~ok
        THEN /\ rlFailed' = Set(rlFailed, p, "read")
             /\ EndCheck(p, CheckFailed, "E")
             /\ UNCHANGED <<rl, current_invocations, rlWrites>>
        ELSE IF ~rl.present
        THEN /\ pc' = Set(pc, p, "rl_put")
             /\ UNCHANGED <<rl, max_invocations, current_invocations, ttl_time,
                            rlWrites, rlFailed, is_allowed, error_message, winHist,
                            statusCode>>
        ELSE /\ current_invocations' = Set(current_invocations, p, rl.invocations)
             /\ IF QuotaReached(rl.invocations, max_invocations[p])
                THEN /\ rl' = CounterOnDeny(rl).rec
                     /\ rlWrites' = Set(rlWrites, p, rlWrites[p] + CounterOnDeny(rl).writes)
                     /\ EndCheck(p, CheckDenied, "D")
                     /\ UNCHANGED rlFailed
                ELSE /\ pc' = Set(pc, p, "rl_inc")
                     /\ UNCHANGED <<rl, max_invocations, ttl_time, rlWrites, rlFailed,
                                    is_allowed, error_message, winHist, statusCode>>
    /\ UNCHANGED <<users, now, table, keyless, req, dbLocals, dbHist, overlap,
                   ncalls>>

\* The increment of a record that expired after it was read fails in the store:
\* 'invocations + :inc' names an attribute the item does not have.
RlInc(p) ==
    /\ pc[p] = "rl_inc"
    /\ rlCalls' = Set(rlCalls, p, rlCalls[p] + 1)
    /\ rlWrites' = Set(rlWrites, p, rlWrites[p] + 1)
    /\ \E ok \in BOOLEAN :
        IF ok /\ rl.present
        THEN /\ rl' = Incremented(rl)
             /\ EndCheck(p, CheckAllowed, "A")
             /\ UNCHANGED rlFailed
        ELSE /\ rlFailed' = Set(rlFailed, p, "inc")
             /\ EndCheck(p, CheckFailed, "E")
             /\ UNCHANGED rl
    /\ UNCHANGED <<users, now, table, keyless, req, current_invocations, dbLocals,
                   dbHist, overlap, ncalls>>

RlPut(p) ==
    /\ pc[p] = "rl_put"
    /\ rlCalls' = Set(rlCalls, p, rlCalls[p] + 1)
    /\ rlWrites' = Set(rlWrites, p, rlWrites[p] + 1)
    /\ \E ok \in BOOLEAN :
        IF ok
        THEN /\ rl' = NewCounter(ttl_time[p])
             /\ EndCheck(p, CheckAllowed, "A")
             /\ UNCHANGED rlFailed
        ELSE /\ rlFailed' = Set(rlFailed, p, "put")
             /\ EndCheck(p, CheckFailed, "E")
             /\ UNCHANGED rl
    /\ UNCHANGED <<users, now, table, keyless, req, current_invocations, dbLocals,
                   dbHist, overlap, ncalls>>

(***************************************************************************)
(* db_update, one store call per step; the step that ends db_update also   *)
(* takes lambda_handler's mapping of the result to a status.               *)
(***************************************************************************)
new_item(p) == NewItem(req[p].key_name, req[p].key_value, req[p].update_data)

\* the table's key is the value of its one key-schema attribute
TableKey(r) == r[key_schema[1]]

Finish(p, res) ==
    /\ result' = Set(result, p, res)
    /\ statusCode' = Set(statusCode, p, StatusOf(res))
    /\ pc' = Set(pc, p, "done")
    /\ lastUpdate' = IF CleanUpdate(res) THEN req[p] ELSE NoReq

\* response = table.query(**query_params)
DbQuery(p) ==
    /\ pc[p] = "query"
    /\ dbCalls' = Set(dbCalls, p, dbCalls[p] + 1)
    /\ \E ok \in BOOLEAN :
        IF ok
        THEN LET m == Query(table, req[p].key_name, req[p].key_value, keyless) IN
             /\ items' = Set(items, p, m)
             /\ pc' = Set(pc, p, IF Len(m) = 0 THEN "describe_create"
                                 ELSE "describe_update")
             /\ UNCHANGED <<result, statusCode, dbFailed, lastUpdate>>
        ELSE /\ Finish(p, ErrorResult)
             /\ dbFailed' = Set(dbFailed, p, "query")
             /\ UNCHANGED items
    /\ UNCHANGED <<storeVars, req, rlLocals, idx, updated_count, errors, rlHist,
                   attempts, ncalls>>

\* describe_table and the key-schema check of the create path
DescribeCreate(p) ==
    /\ pc[p] = "describe_create"
    /\ dbCalls' = Set(dbCalls, p, dbCalls[p] + 1)
    /\ \E ok \in BOOLEAN :
        /\ dbFailed' = Set(dbFailed, p, IF ok THEN "none" ELSE "describe")
        /\ IF ~ok
           THEN Finish(p, CreateFailed)
           ELSE IF MissingKey(new_item(p))
           THEN Finish(p, CreateFailedMissing(FirstMissing(new_item(p))))
           ELSE /\ pc' = Set(pc, p, "put")
                /\ UNCHANGED <<result, statusCode, lastUpdate>>
    /\ UNCHANGED <<storeVars, req, rlLocals, items, idx, updated_count, errors,
                   rlHist, attempts, ncalls>>

\* table.put_item(Item=new_item)
PutItem(p) ==
    /\ pc[p] = "put"
    /\ dbCalls' = Set(dbCalls, p, dbCalls[p] + 1)
    /\ \E ok \in BOOLEAN :
        IF ok
        THEN /\ table' = [table EXCEPT ![TableKey(new_item(p))] =
                                              PutRecord(@, new_item(p))]
             /\ Finish(p, CreateResult(PrimaryKey(new_item(p))))
             /\ UNCHANGED dbFailed
        ELSE /\ Finish(p, CreateFailed)
             /\ dbFailed' = Set(dbFailed, p, "put")
             /\ UNCHANGED table
    /\ UNCHANGED <<users, rl, now, keyless, req, rlLocals, items, idx,
                   updated_count, errors, rlHist, attempts, ncalls>>

\* describe_table of the update path; a failure leaves through except ClientError
DescribeUpdate(p) ==
    /\ pc[p] = "describe_update"
    /\ dbCalls' = Set(dbCalls, p, dbCalls[p] + 1)
    /\ \E ok \in BOOLEAN :
        /\ dbFailed' = Set(dbFailed, p, IF ok THEN "none" ELSE "describe")
        /\ IF ok
           THEN /\ idx' = Set(idx, p, 1)
                /\ pc' = Set(pc, p, "sweep")
                /\ UNCHANGED <<result, statusCode, lastUpdate>>
           ELSE /\ Finish(p, ErrorResult)
                /\ UNCHANGED idx
    /\ UNCHANGED <<storeVars, req, rlLocals, items, updated_count, errors, rlHist,
                   attempts, ncalls>>

\* one iteration of `for idx, item in enumerate(items, 1)`; the last one also
\* builds the result
UpdateItem(p) ==
    /\ pc[p] = "sweep"
    /\ LET i == idx[p]
           n == Len(items[p])
           item == items[p][i]
           ud == req[p].update_data
           missing == MissingKey(item)
       IN \E ok \in BOOLEAN :
           LET success == ~missing /\ ok /\ ~UpdateRejected(ud)
               errs == IF success THEN errors[p]
                       ELSE Append(errors[p],
                                   [idx |-> i,
                                    reason |-> IF missing THEN "missing_key" ELSE "store"])
               cnt == IF success THEN updated_count[p] + 1 ELSE updated_count[p]
               nxt == NextIdx(i, n, ~success)
           IN /\ table' = IF success
                          THEN [table EXCEPT ![TableKey(item)] =
                                   ApplyUpdate(IF @ = EmptyMap THEN PrimaryKey(item)
                                               ELSE @, ud)]
                          ELSE table
              /\ dbCalls' = Set(dbCalls, p, dbCalls[p] + (IF missing THEN 0 ELSE 1))
              /\ attempts' = Set(attempts, p,
                                  Append(attempts[p], [idx |-> i, ok |-> success]))
              /\ updated_count' = Set(updated_count, p, cnt)
              /\ errors' = Set(errors, p, errs)
              /\ IF nxt > n
                 THEN /\ Finish(p, UpdateResult(cnt, n, errs))
                      /\ UNCHANGED idx
                 ELSE /\ idx' = Set(idx, p, nxt)
                      /\ UNCHANGED <<pc, result, statusCode, lastUpdate>>
    /\ UNCHANGED <<users, rl, now, keyless, req, rlLocals, items, rlHist, dbFailed,
                   ncalls>>

\* the invocation has answered; the next event starts from fresh locals
Return(p) ==
    /\ pc[p] = "done"
    /\ pc' = Set(pc, p, "idle")
    /\ req' = Set(req, p, NoReq)
    /\ max_invocations' = Set(max_invocations, p, 0)
    /\ current_invocations' = Set(current_invocations, p, -1)
    /\ ttl_time' = Set(ttl_time, p, 0)
    /\ is_allowed' = Set(is_allowed, p, FALSE)
    /\ error_message' = Set(error_message, p, MsgNone)
    /\ items' = Set(items, p, <<>>)
    /\ idx' = Set(idx, p, 0)
    /\ updated_count' = Set(updated_count, p, 0)
    /\ errors' = Set(errors, p, <<>>)
    /\ result' = Set(result, p, NoResult)
    /\ statusCode' = Set(statusCode, p, 0)
    /\ rlFailed' = Set(rlFailed, p, "none")
    /\ rlWrites' = Set(rlWrites, p, 0)
    /\ rlCalls' = Set(rlCalls, p, 0)
    /\ dbCalls' = Set(dbCalls, p, 0)
    /\ attempts' = Set(attempts, p, <<>>)
    /\ dbFailed' = Set(dbFailed, p, "none")
    /\ UNCHANGED <<storeVars, winHist, overlap, lastUpdate, ncalls>>

(***************************************************************************)
(* The environment: time passes, and the store reclaims the RL_AWS record  *)
(* once its ttl has passed.                                                *)
(***************************************************************************)
Tick ==
    /\ now < MaxTicks * TickMs
    /\ now' = now + TickMs
    /\ UNCHANGED <<users, rl, table, keyless, pc, req, rlLocals, dbLocals, statusCode,
                   rlHist, dbHist, ncalls>>

Expire ==
    /\ rl.present
    /\ rl.ttl <= now
    /\ rl' = NoCounter
    /\ admitted' = 0
    /\ rejected' = 0
    /\ failure' = FALSE
    /\ overlap' = (overlap /\ \E q \in Procs : pc[q] \in RLpcs)
    /\ UNCHANGED <<users, now, table, keyless, pc, req, rlLocals, dbLocals, statusCode,
                   rlFailed, rlWrites, rlCalls, dbHist, ncalls>>

(***************************************************************************)
(* The requests and the invocations of the specifications.                 *)
(***************************************************************************)
Requests ==
    {[NoReq EXCEPT !.kind = "no_body"]}
    \cup ValidReqs({"g"}, {2}, {[pk |-> 1, s |-> 2]})

RequestsDB ==
    InvalidReqs
    \cup ValidReqs({"pk", "g"}, {1},
                   {EmptyMap, [s |-> 2], [pk |-> 2, s |-> 2], [g |-> 2]})

\* two requests for the same index key whose records share the primary key
RequestsRace ==
    ValidReqs({"g"}, {2}, {[pk |-> 1, s |-> 2], [pk |-> 1, t |-> 2]})

\* the invocations of the specification in which they run one after the other
SeqProcs == {"p1"}

Step(p) ==
    \/ RlGetUser(p)
    \/ RlGetCounter(p)
    \/ RlInc(p)
    \/ RlPut(p)
    \/ DbQuery(p)
    \/ DescribeCreate(p)
    \/ PutItem(p)
    \/ DescribeUpdate(p)
    \/ UpdateItem(p)
    \/ Return(p)

Next ==
    \/ \E p \in Procs : Start(p, Requests) \/ Step(p)
    \/ Tick
    \/ Expire

NextDB ==
    \/ \E p \in SeqProcs : Start(p, RequestsDB) \/ Step(p)
    \/ Tick
    \/ Expire

NextRace ==
    \/ \E p \in Procs : Start(p, RequestsRace) \/ Step(p)
    \/ Tick
    \/ Expire

Spec == Init /\ [][Next]_vars

\* concurrent invocations that meet on the create path
SpecRace == InitFair /\ [][NextRace]_vars

SpecDB == InitDB /\ [][NextDB]_vars

\* The Lambda runtime runs an invocation it has started until the handler
\* returns, and every store call returns or raises: an invocation that can
\* take a step eventually takes one.
FairSpec == InitFair /\ [][Next]_vars /\ \A p \in Procs : WF_vars(Step(p))

(***************************************************************************)
(* Properties of the rate limiter.                                         *)
(***************************************************************************)
Quota == QuotaOf(users)

\* the checks of this window ran one at a time and met no store failure
Sequential == ~overlap /\ ~failure

\* C1: with quota Q (Q = 0 included) and no counter record at the start of the
\* window, of Q+1 checks run one after the other without store failure the first
\* Q return Allowed and the (Q+1)-th returns Denied.
C1_FirstQAllowedThenDenied ==
    Sequential =>
        /\ admitted + rejected <= Quota => rejected = 0
        /\ admitted + rejected = Quota + 1 => admitted = Quota /\ rejected = 1

\* C2: an account without a Users item is denied by every check, also by the
\* one that finds no counter record.
C2_NoQuotaAlwaysDenied ==
    ~users.item => \A p \in Procs : ~is_allowed[p]

\* C3: the read of the counter and its increment are separate store steps, so
\* two overlapping checks can both read a count below the quota and both return
\* Allowed, and the window then holds more Allowed results than the quota; the
\* window holds more than max(1, Q) of them only when checks overlapped.
C3_OverAdmissionOnlyByOverlap ==
    admitted > Max(Quota, 1) => overlap

C3_BothAllowedOverQuota ==
    /\ Quota >= 1
    /\ admitted > Quota
    /\ rl.present /\ rl.invocations > Quota
    /\ \E p, q \in Procs :
        /\ p # q
        /\ is_allowed[p] /\ is_allowed[q]
        /\ current_invocations[p] >= 0 /\ current_invocations[p] < Quota
        /\ current_invocations[q] >= 0 /\ current_invocations[q] < Quota
        /\ rlWrites[p] = 1 /\ rlWrites[q] = 1

\* C4: the check that returns Denied because the counter has reached the quota
\* leaves the counter record as it was (invocations and ttl) and issues no write.
C4_DeniedLeavesCounter ==
    [][\A p \in Procs :
          (pc[p] = "rl_get" /\ pc'[p] = "done" /\ error_message'[p] = MsgRateExceeded)
              => (rl' = rl /\ rlWrites'[p] = 0)]_vars

C4_DeniedAtQuota ==
    \E p \in Procs :
        /\ pc[p] = "done" /\ error_message[p] = MsgRateExceeded
        /\ Quota >= 1
        /\ rl.present /\ rl.invocations = current_invocations[p]
        /\ rl.invocations >= Quota
        /\ rlWrites[p] = 0

\* C5: a check that met a failed store access (quota lookup, counter read,
\* increment or creation) returns Denied with the internal-error reason, which
\* is not the quota-exceeded reason, and db_update does not run.
C5_StoreFailureDenies ==
    \A p \in Procs :
        rlFailed[p] # "none" =>
            /\ ~is_allowed[p]
            /\ error_message[p] = MsgInternal
            /\ error_message[p] # MsgRateExceeded
            /\ pc[p] = "done"
            /\ dbCalls[p] = 0

C5_IncrementFailed ==
    \E p, q \in Procs :
        /\ p # q
        /\ rlFailed[p] = "inc" /\ pc[p] = "done"
        /\ rlFailed[q] \in {"quota", "read", "put"} /\ pc[q] = "done"

(***************************************************************************)
(* Properties of db_update.                                                *)
(***************************************************************************)
\* db_update of p has ended and its index query had returned n items
QueryReturned(p, n) ==
    /\ pc[p] = "done"
    /\ dbCalls[p] >= 2
    /\ Len(items[p]) = n

\* the sequence <<1, ..., n>>
UpTo(n) == [i \in 1..n |-> i]

\* the number of attempts of a that succeeded
RECURSIVE Succeeded(_)
Succeeded(a) ==
    IF a = <<>> THEN 0
    ELSE (IF a[1].ok THEN 1 ELSE 0) + Succeeded(Tail(a))

\* the indices of the attempts of a that failed, in order
RECURSIVE FailedIdx(_)
FailedIdx(a) ==
    IF a = <<>> THEN <<>>
    ELSE (IF a[1].ok THEN <<>> ELSE <<a[1].idx>>) \o FailedIdx(Tail(a))

\* C6 as stated: every request whose index query returns zero records ends
\* Created, and the table then holds the new record.
C6_ZeroMatchesAlwaysCreated ==
    \A p \in Procs :
        QueryReturned(p, 0) => result[p].operation = "create"

\* C6: a request whose index query returns zero records, whose synthesized
\* record holds every key-schema attribute and whose schema fetch and insert
\* succeed ends Created, and the insert leaves at the record's primary key
\* exactly key_name -> key_value overridden by the update mapping, every other
\* record unchanged; in every other case it ends Failed and the table is unchanged.
C6_CreatedExactRecord ==
    [][\A p \in Procs :
          (pc[p] \in {"describe_create", "put"} /\ pc'[p] = "done") =>
              LET kn == req[p].key_name
                  ud == req[p].update_data
                  attrs == {kn} \cup DOMAIN ud
              IN IF dbFailed'[p] = "none" /\ KeyAttrs \subseteq attrs
                 THEN /\ result'[p].operation = "create"
                      /\ statusCode'[p] = StatusOk
                      /\ \E k \in PKs :
                            /\ DOMAIN table'[k] = attrs
                            /\ \A a \in DOMAIN ud : table'[k][a] = ud[a]
                            /\ kn \notin DOMAIN ud => table'[k][kn] = req[p].key_value
                            /\ table'[k]["pk"] = k
                            /\ result'[p].primary_key = [pk |-> k]
                            /\ \A j \in PKs \ {k} : table'[j] = table[j]
                 ELSE /\ result'[p].operation = "create_failed"
                      /\ table' = table]_vars

C6_Created ==
    \E p \in Procs :
        /\ QueryReturned(p, 0)
        /\ result[p].operation = "create"
        /\ req[p].key_name = "g"
        /\ table[2] = [pk |-> 2, g |-> 1, s |-> 2]

\* C7 as stated: with N >= 1 matched records db_update ends Updated with
\* total = N and updatedCount + per-item errors = N.
C7_MatchesAlwaysSwept ==
    \A p \in Procs :
        (pc[p] = "done" /\ dbCalls[p] >= 2 /\ Len(items[p]) >= 1) =>
            /\ result[p].operation = "update"
            /\ result[p].total_items = Len(items[p])
            /\ result[p].updated_count + Len(result[p].errors) = Len(items[p])

\* C7: with N >= 1 matched records and a successful schema fetch, the sweep
\* processes every record once, in the query's order, whether or not an earlier
\* one failed, and ends Updated with total = N, updatedCount = the number that
\* succeeded and one per-item error for each that failed; when the schema fetch
\* fails it ends Failed and no record is attempted.
C7_SweepAttemptsAll ==
    \A p \in Procs :
        /\ pc[p] = "sweep" =>
              /\ idx[p] \in 1..Len(items[p])
              /\ [i \in 1..Len(attempts[p]) |-> attempts[p][i].idx] = UpTo(idx[p] - 1)
              /\ updated_count[p] = Succeeded(attempts[p])
        /\ (pc[p] = "done" /\ dbCalls[p] >= 2 /\ Len(items[p]) >= 1
              /\ dbFailed[p] = "none") =>
              /\ result[p].operation = "update"
              /\ statusCode[p] = StatusOk
              /\ result[p].total_items = Len(items[p])
              /\ [i \in 1..Len(attempts[p]) |-> attempts[p][i].idx] = UpTo(Len(items[p]))
              /\ result[p].updated_count = Succeeded(attempts[p])
              /\ [i \in 1..Len(result[p].errors) |-> result[p].errors[i].idx]
                     = FailedIdx(attempts[p])
              /\ result[p].updated_count + Len(result[p].errors) = Len(items[p])
        /\ (pc[p] = "done" /\ Len(items[p]) >= 1 /\ dbFailed[p] = "describe") =>
              /\ result[p].operation = "error"
              /\ attempts[p] = <<>>

C7_SecondUpdatedAfterFirstFailed ==
    \E p \in Procs :
        /\ pc[p] = "done" /\ result[p].operation = "update"
        /\ Len(items[p]) = 2
        /\ Len(result[p].errors) = 1
        /\ result[p].errors[1].idx = 1
        /\ result[p].errors[1].reason = "missing_key"
        /\ attempts[p][2].ok
        /\ result[p].updated_count = 1

(***************************************************************************)
(* Properties of lambda_handler.                                           *)
(***************************************************************************)
DBpcs == {"query", "describe_create", "put", "describe_update", "sweep"}

\* C8: a request with an empty update mapping is rejected before any store
\* access and answered with the malformed-request status.
C8_EmptyUpdateRejected ==
    \A p \in Procs :
        (req[p].kind = "valid" /\ req[p].update_data = EmptyMap) =>
            /\ rlCalls[p] = 0
            /\ dbCalls[p] = 0
            /\ pc[p] = "done" => statusCode[p] = StatusBadRequest

\* C9: db_update runs only after the check returned Allowed; after a Denied
\* check the handler answers 429 and has issued no store call of db_update.
C9_UpdateOnlyAfterAllowed ==
    \A p \in Procs :
        /\ (pc[p] \in DBpcs \/ dbCalls[p] > 0) => is_allowed[p]
        /\ error_message[p] # MsgNone =>
              /\ pc[p] = "done"
              /\ statusCode[p] = StatusRateLimited
              /\ dbCalls[p] = 0
              /\ result[p] = NoResult

C9_DeniedBesideUpdate ==
    \E p, q \in Procs :
        /\ pc[p] = "done" /\ error_message[p] = MsgRateExceeded
        /\ statusCode[p] = StatusRateLimited
        /\ is_allowed[q] /\ dbCalls[q] > 0

\* C10: a request that failed on a store failure, also one inside the rate-limit
\* check, is answered with the internal-failure status, and the rate-limited
\* status is returned only when the counter had reached the quota.
C10_StatusTellsFailuresApart ==
    \A p \in Procs :
        pc[p] = "done" =>
            /\ (rlFailed[p] # "none" \/ dbFailed[p] # "none")
                   => statusCode[p] = StatusInternal
            /\ statusCode[p] = StatusRateLimited
                   => (error_message[p] = MsgRateExceeded
                       /\ current_invocations[p] >= Quota)

\* C11: every request that fails validation (no body, invalid JSON, a body
\* without the required fields, update_data that is not a mapping, an empty
\* account id) is answered 400 and has issued no store call: neither the quota
\* and the counter nor the target table were read or written.
C11_ValidationErrorRejected ==
    \A p \in Procs :
        req[p].kind \in ReqKinds \ {"valid"} =>
            /\ pc[p] = "done"
            /\ statusCode[p] = StatusBadRequest
            /\ rlCalls[p] = 0 /\ rlWrites[p] = 0
            /\ dbCalls[p] = 0

\* C12: whichever store calls fail, every started invocation of lambda_handler
\* comes to its end with a response whose status is 200, 400, 429 or 500, and
\* it answers once: the status is set by the step that ends the invocation and
\* is not changed afterwards.
C12_EveryInvocationAnswers ==
    /\ \A p \in Procs :
          (pc[p] # "idle") ~> (pc[p] = "done" /\ statusCode[p] \in {200, 400, 429, 500})
    /\ [][\A p \in Procs :
            statusCode'[p] # statusCode[p] =>
                \/ statusCode[p] = 0 /\ pc[p] # "done" /\ pc'[p] = "done"
                \/ pc[p] = "done" /\ pc'[p] = "idle" /\ statusCode'[p] = 0]_vars

C12_FailuresAnswered ==
    \E p, q \in Procs :
        /\ p # q
        /\ pc[p] = "done" /\ dbFailed[p] \in {"query", "describe", "put"}
        /\ statusCode[p] = StatusInternal
        /\ pc[q] = "done" /\ rlFailed[q] # "none"
        /\ statusCode[q] = StatusRateLimited

\* C13: when db_update returns Updated, also with per-item errors, or Created,
\* lambda_handler answers 200; when it returns Failed (create_failed or error,
\* the results that carry 'error') it answers 500.
C13_OutcomeToStatus ==
    \A p \in Procs :
        (pc[p] = "done" /\ result[p] # NoResult) =>
            /\ result[p].operation \in {"update", "create", "create_failed", "error"}
            /\ result[p].operation \in {"update", "create"} =>
                  ~result[p].error /\ statusCode[p] = StatusOk
            /\ result[p].operation \in {"create_failed", "error"} =>
                  result[p].error /\ statusCode[p] = StatusInternal

C13_PartialSweepIsSuccess ==
    \E p \in Procs :
        /\ pc[p] = "done" /\ result[p].operation = "update"
        /\ result[p].total_items = 2
        /\ result[p].updated_count = 1
        /\ Len(result[p].errors) = 1
        /\ statusCode[p] = StatusOk

\* the primary keys of the records the index query of p returned
MatchedKeys(p) ==
    {k \in PKs : \E i \in 1..Len(items[p]) :
        ~MissingKey(items[p][i]) /\ TableKey(items[p][i]) = k}

\* the step is an iteration of p's sweep that updated the record with key k
Updated(p, k) ==
    /\ pc[p] = "sweep"
    /\ ~MissingKey(items[p][idx[p]])
    /\ TableKey(items[p][idx[p]]) = k
    /\ Len(attempts'[p]) = Len(attempts[p]) + 1
    /\ attempts'[p][Len(attempts'[p])].ok

\* on a step that updated record k with the mapping ud, the attributes of ud
\* have their new values and every other attribute of the record is as before
UpdateFrame(k, ud) ==
    /\ DOMAIN table'[k] = DOMAIN table[k] \cup DOMAIN ud
    /\ \A a \in DOMAIN ud : table'[k][a] = ud[a]
    /\ \A a \in DOMAIN table[k] \ DOMAIN ud : table'[k][a] = table[k][a]

\* C14 as stated: a step of db_update changes a stored record only when the
\* index query had matched it, and then only the attributes of the update
\* mapping; no step removes a record.
C14_OnlyMatchedRecordsChange ==
    [][\A p \in Procs, k \in PKs :
          (pc[p] \in DBpcs /\ table[k] # EmptyMap) =>
              /\ table'[k] # EmptyMap
              /\ k \notin MatchedKeys(p) => table'[k] = table[k]
              /\ Updated(p, k) => UpdateFrame(k, req[p].update_data)]_vars

\* C14: an iteration of the sweep that updates a record gives the attributes of
\* the update mapping their new values and leaves its other attributes and every
\* other record as they were, an iteration that fails changes nothing, and the
\* sweep touches no record the index query did not return; the insert of the
\* create path writes one primary key only, replacing the record stored there,
\* if any; no step removes a record from the table.
C14_UpdateFrame ==
    [][\A p \in Procs, k \in PKs :
          /\ table[k] # EmptyMap => table'[k] # EmptyMap
          /\ pc[p] = "sweep" =>
                IF Updated(p, k)
                THEN /\ k \in MatchedKeys(p)
                     /\ table[k] # EmptyMap => UpdateFrame(k, req[p].update_data)
                ELSE table'[k] = table[k]
          /\ (pc[p] = "put" /\ table'[k] # table[k]) =>
                /\ k = TableKey(new_item(p))
                /\ table'[k] = new_item(p)
          /\ pc[p] \in DBpcs \ {"sweep", "put"} => table'[k] = table[k]]_vars

C14_OneMatchedUpdated ==
    \E p \in Procs :
        /\ pc[p] = "done" /\ result[p].operation = "update"
        /\ req[p].key_name = "pk" /\ req[p].update_data = [s |-> 2]
        /\ result[p].updated_count = 1
        /\ table[1] = [pk |-> 1, g |-> 1, s |-> 2]
        /\ table[2] = [pk |-> 2, g |-> 1, s |-> 1]

\* C15: after a db_update that updated a record and met no store failure, a
\* second db_update with the identical request and no other writer in between
\* leaves every record, and so the whole table, as the first one left it: no
\* step of the second application changes the table.
C15_SecondApplicationChangesNothing ==
    [][\A p \in Procs :
          (pc[p] \in DBpcs /\ req[p] = lastUpdate) => table' = table]_vars

C15_SecondSweepReapplied ==
    \E p \in Procs :
        /\ pc[p] = "sweep" /\ req[p] = lastUpdate
        /\ req[p].update_data = [s |-> 2]
        /\ idx[p] = 2 /\ attempts[p][1].ok
        /\ table[1] = [pk |-> 1, g |-> 1, s |-> 2]

\* C16: the insert of the create path is unconditional: whatever the table
\* holds by then, also a record another invocation inserted after this one's
\* index query, a successful insert ends Created and leaves under the record's
\* primary key exactly the inserted record, none of the replaced record's
\* attributes surviving; so of two invocations for the same key that both saw
\* zero matches both end Created and the table holds the record inserted last.
C16_InsertReplacesWhole ==
    [][\A p \in Procs :
          (pc[p] = "put" /\ pc'[p] = "done" /\ dbFailed'[p] = "none") =>
              /\ result'[p].operation = "create"
              /\ table'[TableKey(new_item(p))] = new_item(p)
              /\ \A k \in PKs \ {TableKey(new_item(p))} : table'[k] = table[k]]_vars

C16_BothCreatedLastWins ==
    \E p, q \in Procs :
        /\ p # q
        /\ pc[p] = "done" /\ pc[q] = "done"
        /\ items[p] = <<>> /\ items[q] = <<>>
        /\ result[p].operation = "create" /\ result[q].operation = "create"
        /\ result[p].primary_key = result[q].primary_key
        /\ new_item(p) = [g |-> 2, pk |-> 1, s |-> 2]
        /\ new_item(q) = [g |-> 2, pk |-> 1, t |-> 2]
        /\ table[1] = new_item(q)

\* C17: on the create path, when the record {key_name: key_value} united with
\* update_data lacks an attribute of the table's key schema and the schema
\* fetch succeeds, db_update ends Failed with an error that names the missing
\* key attribute, without an insert: the table is unchanged.
C17_MissingKeyFailsWithoutInsert ==
    [][\A p \in Procs :
          (pc[p] = "describe_create" /\ pc'[p] # "describe_create"
             /\ KeyAttrs \ DOMAIN new_item(p) # {}) =>
              /\ pc'[p] = "done"
              /\ result'[p].operation = "create_failed"
              /\ result'[p].error
              /\ dbFailed'[p] = "none" =>
                    result'[p].missing \in KeyAttrs \ DOMAIN new_item(p)
              /\ dbCalls'[p] = dbCalls[p] + 1
              /\ table' = table]_vars

C17_FailedNamingPk ==
    \E p \in Procs :
        /\ pc[p] = "done" /\ result[p].operation = "create_failed"
        /\ items[p] = <<>>
        /\ req[p].key_name = "g" /\ req[p].update_data = [s |-> 2]
        /\ result[p].missing = "pk"
        /\ dbCalls[p] = 2
        /\ table = EmptyTable

(***************************************************************************)
(* Properties of the window.                                               *)
(***************************************************************************)
\* C18: the limiter is a fixed window: the check that creates the counter
\* record stores invocations = 1 and a ttl 60 seconds (60000 ms) after the time
\* it read; an increment that ends Allowed adds exactly 1 and leaves the ttl as
\* it was; and a check that reads no record, as after the store reclaimed an
\* expired one, goes on to create a fresh record with invocations = 1 and, the
\* write succeeding, returns Allowed.
C18_FixedWindow ==
    [][\A p \in Procs :
          /\ (pc[p] = "rl_user" /\ pc'[p] = "rl_get") =>
                ttl_time'[p] = now + 60 * 1000
          /\ (pc[p] = "rl_get" /\ pc'[p] # "rl_get" /\ ~rl.present
                /\ rlFailed'[p] = "none") =>
                pc'[p] = "rl_put"
          /\ (pc[p] = "rl_put" /\ pc'[p] # "rl_put" /\ rlFailed'[p] = "none") =>
                /\ rl' = [present |-> TRUE, invocations |-> 1, ttl |-> ttl_time[p]]
                /\ is_allowed'[p]
          /\ (pc[p] = "rl_inc" /\ pc'[p] # "rl_inc" /\ rlFailed'[p] = "none") =>
                /\ rl'.present
                /\ rl'.invocations = rl.invocations + 1
                /\ rl'.ttl = rl.ttl
                /\ is_allowed'[p]]_vars

\* a request was denied in the window that has expired, and the first check of
\* the next window created a fresh record and was allowed
C18_AdmittedAgainAfterExpiry ==
    \E p, q \in Procs :
        /\ p # q
        /\ Quota >= 1
        /\ pc[q] = "done" /\ error_message[q] = MsgRateExceeded
        /\ admitted = 1 /\ rejected = 0
        /\ is_allowed[p] /\ rlWrites[p] = 1 /\ current_invocations[p] = -1
        /\ rl.present /\ rl.invocations = 1
        /\ rl.ttl = TickMs + WindowMs

\* C19: while the checks of a window that began without a record run one at
\* a time and meet no store failure, the stored count is the number of checks
\* that returned Allowed (no record: none has) and is at most max(1, Q); and
\* no store call of db_update changes the counter record, whether the update
\* succeeds or fails.
C19_CountIsAdmitted ==
    /\ [](Sequential =>
            /\ admitted = (IF rl.present THEN rl.invocations ELSE 0)
            /\ rl.invocations <= Max(1, Quota))
    /\ [][\A p \in Procs :
            (dbCalls'[p] # dbCalls[p] \/ attempts'[p] # attempts[p]) => rl' = rl]_vars

C19_QuotaUsedUpdateFailed ==
    \E p \in Procs :
        /\ Sequential
        /\ Quota = 2 /\ admitted = 2 /\ rejected = 1
        /\ rl.present /\ rl.invocations = 2
        /\ pc[p] = "done" /\ is_allowed[p] /\ dbFailed[p] # "none"

\* C20: while the counter record is not reclaimed, no step of any interleaving
\* of concurrent checks lowers the stored count; a creation write that comes
\* after other checks have incremented the count does not reset it.
C20_CountNeverDecreases ==
    [][(rl.present /\ rl'.present) => rl'.invocations >= rl.invocations]_vars

====
